---- MODULE Spec2Model ----
(***************************************************************************)
(* Model of the polydraft-purchase program                                 *)
(* (src/programs/polydraft-purchase/src/lib.rs).                           *)
(*                                                                         *)
(* The program has one instruction, buy_pack.  One invocation is one       *)
(* atomic transaction of the ledger: the runtime write-locks the accounts  *)
(* the transaction names (buyer, buyer_usdc, treasury_usdc, receipt), so   *)
(* two transactions that touch the same account never overlap, and it      *)
(* discards every account change of a transaction that returns an error.   *)
(* Concurrent submissions are therefore modelled as an arbitrary order of  *)
(* atomic BuyPack steps.                                                   *)
(*                                                                         *)
(* What one invocation does, in the order the code does it:                *)
(*   1. #[derive(Accounts)] BuyPack::try_accounts (lib.rs 45-86)           *)
(*      a. the `init` field `receipt` (75-82): derive the address from the *)
(*         seeds, compare it to the account passed, create the account;    *)
(*      b. the constraints of the other fields, in field order             *)
(*         (buyer_usdc 52-57, treasury_usdc 60-65, usdc_mint 68-72);       *)
(*   2. the handler body buy_pack (16-38): the two require!s, the token    *)
(*      transfer, the receipt's fields;                                    *)
(*   3. commit (all changes) or rollback (none).                           *)
(*                                                                         *)
(* Not modelled (the ledger's business): lamports, rent and fees, frozen   *)
(* token accounts, the amount a delegate is approved for, the identity of  *)
(* token_program and system_program.  Token supply is far below 2^64, so  *)
(* u64 arithmetic on balances never wraps.                                 *)
(***************************************************************************)
EXTENDS Integers, Sequences, FiniteSets, TLC

VARIABLES
    balance,      \* token account -> amount held (TokenAccount.amount)
    receipts,     \* address -> PurchaseReceipt, for every allocated receipt account
    clock,        \* Clock::get().unix_timestamp
    debited,      \* history: wallet -> tokens taken from the source accounts of the
                  \*          committed invocations it signed
    credited,     \* history: wallet -> tokens added to the destination accounts of the
                  \*          committed invocations it signed
    commits,      \* history: <<buyer, client_seed>> -> number of committed invocations,
                  \*          for the pairs that have one
    last          \* history: the last invocation (request, result, state before it)

vars == <<balance, receipts, clock, debited, credited, commits, last>>

----------------------------------------------------------------------------
(* Bounds of the model *)

MaxAmount == 1
MaxClock == 1
MaxReceipts == 2

----------------------------------------------------------------------------
(* Identities *)

USDC_MINT == "USDC_MINT"
TREASURY == "TREASURY"

Mints == {USDC_MINT, "OTHER_MINT"}
Wallets == {"B1", "B2", TREASURY}

\* The token accounts that exist on the ledger: mint and owner never change
\* (the program only ever calls Transfer on them).
TokenAccounts == {"a1", "a2", "t", "f1", "ft"}

TokenAccountMint(a) == IF a \in {"f1", "ft"} THEN "OTHER_MINT" ELSE USDC_MINT

TokenAccountOwner(a) ==
    CASE a \in {"a1", "f1"} -> "B1"
      [] a = "a2" -> "B2"
      [] OTHER -> TREASURY

\* TokenAccount.delegate: a2's owner has approved B1 to move its tokens (the
\* approval covers the whole balance); no other account has a delegate
TokenAccountDelegate(a) == IF a = "a2" THEN "B1" ELSE "none"

InitBalance == [a \in TokenAccounts |->
    CASE a = "a1" -> 2 [] a = "a2" -> 1 [] a = "f1" -> 1 [] OTHER -> 0]

\* Pubkey::as_ref(): the 32 bytes of a key, written as 32 characters
KeyBytes(k) ==
    CASE k = "B1" -> "B1::::::::::::::::::::::::::::::"
      [] k = "B2" -> "B2::::::::::::::::::::::::::::::"
      [] OTHER    -> "TREASURY::::::::::::::::::::::::"

----------------------------------------------------------------------------
(* client_seed: a String; Len is its length in bytes *)

MAX_SEED_LEN == 32

\* tags of 1, 32 and 33 bytes
Seeds == {"a", "bbbbbbbbbbbbbbbbbbbbbbbbbbbbbbbb", "ccccccccccccccccccccccccccccccccc"}

\* the bound of line 17: require!(client_seed.len() <= 32, ...)
CLIENT_SEED_MAX == 32

----------------------------------------------------------------------------
(* The receipt's address: seeds = [b"purchase", buyer, client_seed], bump   *)
(* (lib.rs 79-80).  Anchor derives it with Pubkey::find_program_address:    *)
(* for bump = 255 down to 0, hash the seeds, the bump, the program id and a *)
(* marker, and take the first hash that is not a point of the Ed25519       *)
(* curve.  A seed longer than MAX_SEED_LEN bytes makes the derivation fail. *)
(* SHA-256 is modelled as injective: the hash is what was hashed, the seeds *)
(* one after the other and the bump (program id and marker, the same in     *)
(* every call, left out).  The curve test is a fixed predicate of the hash. *)

MAX_BUMP == 255

\* mutant: the buyer's key is not among the seeds
ReceiptSeeds_NoBuyer(buyer, client_seed) == <<"purchase", client_seed>>

ReceiptSeeds(buyer, client_seed) == <<"purchase", KeyBytes(buyer), client_seed>>

\* the seeds one after the other, as the hasher is fed them
Concat(seeds) ==
    LET cat[i \in 0..Len(seeds)] == IF i = 0 THEN "" ELSE cat[i - 1] \o seeds[i]
    IN cat[Len(seeds)]

Hash(seeds, bump) == <<Concat(seeds), bump>>

IsOnCurve(h) == (Len(h[1]) + h[2]) % 2 = 0

SeedTooLongForPda(seeds) == \E i \in DOMAIN seeds : Len(seeds[i]) > MAX_SEED_LEN

NoAddress == [found |-> FALSE, address |-> <<>>, bump |-> 0]

\* for bump in (0..=255).rev(): the first bump whose hash is off the curve
FindProgramAddress(seeds) ==
    LET try[bump \in 0..MAX_BUMP] ==
            IF ~IsOnCurve(Hash(seeds, bump))
            THEN [found |-> TRUE, address |-> Hash(seeds, bump), bump |-> bump]
            ELSE IF bump = 0 THEN NoAddress ELSE try[bump - 1]
    IN IF SeedTooLongForPda(seeds) THEN NoAddress ELSE try[MAX_BUMP]

\* the derivation for every buyer and tag of the model, computed once:
\* <<buyer, client_seed>> -> the result of find_program_address
PdaTable ==
    LET table[S \in SUBSET (Wallets \X Seeds)] ==
            IF S = {} THEN << >>
            ELSE LET p == CHOOSE x \in S : TRUE
                 IN (p :> FindProgramAddress(ReceiptSeeds(p[1], p[2]))) @@ table[S \ {p}]
    IN table[Wallets \X Seeds]

ReceiptAddress(buyer, client_seed) == PdaTable[<<buyer, client_seed>>]

----------------------------------------------------------------------------
(* Requests *)

ValidSeeds == {s \in Seeds : Len(s) <= MAX_SEED_LEN}

\* an address that is some receipt's, passed where another one is expected
DecoyKey == ReceiptAddress("B1", "a").address

\* The accounts and arguments of one buy_pack transaction.  `receipt` is the
\* address of the account passed for the field `receipt`.
Requests ==
    {r \in [buyer : Wallets, buyer_usdc : TokenAccounts,
            treasury_usdc : TokenAccounts, usdc_mint : Mints,
            receipt : {ReceiptAddress(b, s).address : b \in Wallets, s \in ValidSeeds},
            client_seed : Seeds, amount : 0..MaxAmount] :
        r.receipt \in {ReceiptAddress(r.buyer, r.client_seed).address, DecoyKey}}

----------------------------------------------------------------------------
(* One invocation works on a copy of the ledger, w; `err` is "Ok" until a  *)
(* step fails, `steps` lists the steps that were carried out.              *)

Fail(w, e) == [w EXCEPT !.err = e]
Did(w, step) == [w EXCEPT !.steps = Append(@, step)]

\* #[account] PurchaseReceipt, as the system program allocates it: zeroed
ZeroReceipt ==
    [buyer |-> "default", amount |-> 0, client_seed |-> "", timestamp |-> 0, bump |-> 0]

Put(f, k, v) == [x \in DOMAIN f \cup {k} |-> IF x = k THEN v ELSE f[x]]

\* mutant: the account is created without looking whether it exists
InitReceipt_NoInUseCheck(w, req) ==
    LET pda == ReceiptAddress(req.buyer, req.client_seed) IN
    IF ~pda.found THEN Fail(w, "MaxSeedLengthExceeded")
    ELSE IF req.receipt # pda.address THEN Fail(w, "ConstraintSeeds")
    ELSE Did([w EXCEPT !.receipts = Put(@, req.receipt, ZeroReceipt),
                       !.bump = pda.bump], "init_receipt")

\* mutant: init_if_needed, an existing receipt account is taken as it is
InitReceipt_IfNeeded(w, req) ==
    LET pda == ReceiptAddress(req.buyer, req.client_seed) IN
    IF ~pda.found THEN Fail(w, "MaxSeedLengthExceeded")
    ELSE IF req.receipt # pda.address THEN Fail(w, "ConstraintSeeds")
    ELSE IF req.receipt \in DOMAIN w.receipts
        THEN Did([w EXCEPT !.bump = pda.bump], "init_receipt")
    ELSE Did([w EXCEPT !.receipts = Put(@, req.receipt, ZeroReceipt),
                       !.bump = pda.bump], "init_receipt")

\* mutant: init without seeds, the account passed is taken as the receipt
InitReceipt_NoSeedsCheck(w, req) ==
    LET pda == ReceiptAddress(req.buyer, req.client_seed) IN
    IF ~pda.found THEN Fail(w, "MaxSeedLengthExceeded")
    ELSE IF req.receipt \in DOMAIN w.receipts THEN Fail(w, "AccountAlreadyInUse")
    ELSE Did([w EXCEPT !.receipts = Put(@, req.receipt, ZeroReceipt),
                       !.bump = pda.bump], "init_receipt")

\* #[account(init, payer = buyer, space = ..., seeds = [...], bump)] receipt
InitReceipt(w, req) ==
    LET pda == ReceiptAddress(req.buyer, req.client_seed) IN
    IF ~pda.found THEN Fail(w, "MaxSeedLengthExceeded")
    ELSE IF req.receipt # pda.address THEN Fail(w, "ConstraintSeeds")
    ELSE IF req.receipt \in DOMAIN w.receipts THEN Fail(w, "AccountAlreadyInUse")
    ELSE Did([w EXCEPT !.receipts = Put(@, req.receipt, ZeroReceipt),
                       !.bump = pda.bump], "init_receipt")

\* mutant: the mint passed is not compared with USDC_MINT
AccountConstraints_NoMintCheck(w, req, rejectDup) ==
    IF rejectDup /\ req.buyer_usdc = req.treasury_usdc
        THEN Fail(w, "ConstraintDuplicateMutableAccount")
    ELSE IF TokenAccountOwner(req.buyer_usdc) # req.buyer
        THEN Fail(w, "ConstraintTokenOwner")
    ELSE IF TokenAccountMint(req.buyer_usdc) # req.usdc_mint
        THEN Fail(w, "ConstraintTokenMint")
    ELSE IF TokenAccountOwner(req.treasury_usdc) # TREASURY
        THEN Fail(w, "InvalidTreasury")
    ELSE IF TokenAccountMint(req.treasury_usdc) # req.usdc_mint
        THEN Fail(w, "ConstraintTokenMint")
    ELSE Did(w, "account_constraints")

\* mutant: the owner of the destination account is not compared with TREASURY
AccountConstraints_NoTreasuryCheck(w, req, rejectDup) ==
    IF rejectDup /\ req.buyer_usdc = req.treasury_usdc
        THEN Fail(w, "ConstraintDuplicateMutableAccount")
    ELSE IF TokenAccountOwner(req.buyer_usdc) # req.buyer
        THEN Fail(w, "ConstraintTokenOwner")
    ELSE IF TokenAccountMint(req.buyer_usdc) # req.usdc_mint
        THEN Fail(w, "ConstraintTokenMint")
    ELSE IF TokenAccountMint(req.treasury_usdc) # req.usdc_mint
        THEN Fail(w, "ConstraintTokenMint")
    ELSE IF req.usdc_mint # USDC_MINT
        THEN Fail(w, "InvalidMint")
    ELSE Did(w, "account_constraints")

\* mutant: buyer_usdc without token::authority = buyer
AccountConstraints_NoAuthorityCheck(w, req, rejectDup) ==
    IF rejectDup /\ req.buyer_usdc = req.treasury_usdc
        THEN Fail(w, "ConstraintDuplicateMutableAccount")
    ELSE IF TokenAccountMint(req.buyer_usdc) # req.usdc_mint
        THEN Fail(w, "ConstraintTokenMint")
    ELSE IF TokenAccountOwner(req.treasury_usdc) # TREASURY
        THEN Fail(w, "InvalidTreasury")
    ELSE IF TokenAccountMint(req.treasury_usdc) # req.usdc_mint
        THEN Fail(w, "ConstraintTokenMint")
    ELSE IF req.usdc_mint # USDC_MINT
        THEN Fail(w, "InvalidMint")
    ELSE Did(w, "account_constraints")

\* mutant: the mint passed is compared with USDC_MINT before the fields
\* buyer_usdc and treasury_usdc are looked at
AccountConstraints_MintFirst(w, req, rejectDup) ==
    IF rejectDup /\ req.buyer_usdc = req.treasury_usdc
        THEN Fail(w, "ConstraintDuplicateMutableAccount")
    ELSE IF req.usdc_mint # USDC_MINT
        THEN Fail(w, "InvalidMint")
    ELSE IF TokenAccountOwner(req.buyer_usdc) # req.buyer
        THEN Fail(w, "ConstraintTokenOwner")
    ELSE IF TokenAccountMint(req.buyer_usdc) # req.usdc_mint
        THEN Fail(w, "ConstraintTokenMint")
    ELSE IF TokenAccountOwner(req.treasury_usdc) # TREASURY
        THEN Fail(w, "InvalidTreasury")
    ELSE IF TokenAccountMint(req.treasury_usdc) # req.usdc_mint
        THEN Fail(w, "ConstraintTokenMint")
    ELSE Did(w, "account_constraints")

\* The constraints of the fields that are not `init`, checked after the
\* `init` field, field by field in declaration order.  Within a field a
\* `constraint = ...` expression is checked before the token:: constraints,
\* and token::authority before token::mint.  Whether the same account may
\* be passed for two `mut` fields depends on the anchor-lang release the
\* program is built with (rejected from 0.32 on), which the repository
\* does not pin: rejectDup is either.
AccountConstraints(w, req, rejectDup) ==
    IF rejectDup /\ req.buyer_usdc = req.treasury_usdc
        THEN Fail(w, "ConstraintDuplicateMutableAccount")
    \* buyer_usdc: token::authority = buyer, token::mint = usdc_mint
    ELSE IF TokenAccountOwner(req.buyer_usdc) # req.buyer
        THEN Fail(w, "ConstraintTokenOwner")
    ELSE IF TokenAccountMint(req.buyer_usdc) # req.usdc_mint
        THEN Fail(w, "ConstraintTokenMint")
    \* treasury_usdc: constraint = treasury_usdc.owner == TREASURY, token::mint = usdc_mint
    ELSE IF TokenAccountOwner(req.treasury_usdc) # TREASURY
        THEN Fail(w, "InvalidTreasury")
    ELSE IF TokenAccountMint(req.treasury_usdc) # req.usdc_mint
        THEN Fail(w, "ConstraintTokenMint")
    \* usdc_mint: constraint = usdc_mint.key() == USDC_MINT
    ELSE IF req.usdc_mint # USDC_MINT
        THEN Fail(w, "InvalidMint")
    ELSE Did(w, "account_constraints")

\* mutant: the receipt is initialised after the other fields are checked
TryAccounts_InitLast(w, req, rejectDup) ==
    LET w1 == AccountConstraints(w, req, rejectDup) IN
    IF w1.err # "Ok" THEN w1 ELSE InitReceipt(w1, req)

\* BuyPack::try_accounts
TryAccounts(w, req, rejectDup) ==
    LET w1 == InitReceipt(w, req) IN
    IF w1.err # "Ok" THEN w1 ELSE AccountConstraints(w1, req, rejectDup)

\* mutant: the source is debited, the destination is not credited
Transfer_NoCredit(w, from, to, authority, amount) ==
    IF w.balance[from] < amount THEN Fail(w, "InsufficientFunds")
    ELSE IF TokenAccountMint(from) # TokenAccountMint(to) THEN Fail(w, "MintMismatch")
    ELSE IF authority \notin {TokenAccountOwner(from), TokenAccountDelegate(from)}
        THEN Fail(w, "OwnerMismatch")
    ELSE LET moved == IF from = to \/ amount = 0 THEN w.balance
                      ELSE [w.balance EXCEPT ![from] = @ - amount]
         IN Did([w EXCEPT !.balance = moved,
                          !.debited[authority] = @ + (w.balance[from] - moved[from]),
                          !.credited[authority] = @ + (moved[to] - w.balance[to])],
                "transfer")

\* mutant: the source's balance is not compared with the amount
Transfer_NoBalanceCheck(w, from, to, authority, amount) ==
    IF TokenAccountMint(from) # TokenAccountMint(to) THEN Fail(w, "MintMismatch")
    ELSE IF authority \notin {TokenAccountOwner(from), TokenAccountDelegate(from)}
        THEN Fail(w, "OwnerMismatch")
    ELSE LET moved == IF from = to \/ amount = 0 THEN w.balance
                      ELSE [w.balance EXCEPT ![from] = @ - amount, ![to] = @ + amount]
         IN Did([w EXCEPT !.balance = moved,
                          !.debited[authority] = @ + (w.balance[from] - moved[from]),
                          !.credited[authority] = @ + (moved[to] - w.balance[to])],
                "transfer")

\* token::transfer(cpi_ctx, amount): the token program's Transfer.  A
\* transfer from an account to itself, like one of amount 0, succeeds and
\* changes no balance.  The authority that signs is the owner of the source
\* or its delegate.
Transfer(w, from, to, authority, amount) ==
    IF w.balance[from] < amount THEN Fail(w, "InsufficientFunds")
    ELSE IF TokenAccountMint(from) # TokenAccountMint(to) THEN Fail(w, "MintMismatch")
    ELSE IF authority \notin {TokenAccountOwner(from), TokenAccountDelegate(from)}
        THEN Fail(w, "OwnerMismatch")
    ELSE LET moved == IF from = to \/ amount = 0 THEN w.balance
                      ELSE [w.balance EXCEPT ![from] = @ - amount, ![to] = @ + amount]
         IN Did([w EXCEPT !.balance = moved,
                          !.debited[authority] = @ + (w.balance[from] - moved[from]),
                          !.credited[authority] = @ + (moved[to] - w.balance[to])],
                "transfer")

\* mutant: the bump stored is the first one tried, not the one found
WriteReceipt_FirstBump(w, req, now) ==
    Did([w EXCEPT !.receipts[req.receipt] =
            [buyer |-> req.buyer, amount |-> req.amount,
             client_seed |-> req.client_seed, timestamp |-> now,
             bump |-> MAX_BUMP]], "write_receipt")

\* mutant: the timestamp is left as allocated
WriteReceipt_NoTimestamp(w, req, now) ==
    Did([w EXCEPT !.receipts[req.receipt] =
            [buyer |-> req.buyer, amount |-> req.amount,
             client_seed |-> req.client_seed, timestamp |-> ZeroReceipt.timestamp,
             bump |-> w.bump]], "write_receipt")

\* lines 29-35: the receipt's fields
WriteReceipt(w, req, now) ==
    Did([w EXCEPT !.receipts[req.receipt] =
            [buyer |-> req.buyer, amount |-> req.amount,
             client_seed |-> req.client_seed, timestamp |-> now,
             bump |-> w.bump]], "write_receipt")

\* mutant: the result of the transfer is not propagated
Handler_IgnoreTransferError(w, req, now) ==
    IF ~(Len(req.client_seed) <= CLIENT_SEED_MAX) THEN Fail(w, "SeedTooLong")
    ELSE IF ~(req.amount > 0) THEN Fail(w, "ZeroAmount")
    ELSE LET w1 == Transfer(Did(w, "transfer_requested"), req.buyer_usdc,
                            req.treasury_usdc, req.buyer, req.amount)
         IN WriteReceipt([w1 EXCEPT !.err = "Ok"], req, now)

\* mutant: the amount is not checked
Handler_NoAmountCheck(w, req, now) ==
    IF ~(Len(req.client_seed) <= CLIENT_SEED_MAX) THEN Fail(w, "SeedTooLong")
    ELSE LET w1 == Transfer(Did(w, "transfer_requested"), req.buyer_usdc,
                            req.treasury_usdc, req.buyer, req.amount)
         IN IF w1.err # "Ok" THEN w1 ELSE WriteReceipt(w1, req, now)

\* mutant: the transfer is requested before the two require!s
Handler_TransferFirst(w, req, now) ==
    LET w1 == Transfer(Did(w, "transfer_requested"), req.buyer_usdc, req.treasury_usdc,
                       req.buyer, req.amount)
    IN IF w1.err # "Ok" THEN w1
       ELSE IF ~(Len(req.client_seed) <= CLIENT_SEED_MAX) THEN Fail(w1, "SeedTooLong")
       ELSE IF ~(req.amount > 0) THEN Fail(w1, "ZeroAmount")
       ELSE WriteReceipt(w1, req, now)

\* mutant: the amount is required not to be negative
Handler_AmountNotNegative(w, req, now) ==
    IF ~(Len(req.client_seed) <= CLIENT_SEED_MAX) THEN Fail(w, "SeedTooLong")
    ELSE IF ~(req.amount >= 0) THEN Fail(w, "ZeroAmount")
    ELSE LET w1 == Transfer(Did(w, "transfer_requested"), req.buyer_usdc,
                            req.treasury_usdc, req.buyer, req.amount)
         IN IF w1.err # "Ok" THEN w1 ELSE WriteReceipt(w1, req, now)

\* the body of buy_pack
Handler(w, req, now) ==
    IF ~(Len(req.client_seed) <= CLIENT_SEED_MAX) THEN Fail(w, "SeedTooLong")
    ELSE IF ~(req.amount > 0) THEN Fail(w, "ZeroAmount")
    ELSE LET w1 == Transfer(Did(w, "transfer_requested"), req.buyer_usdc, req.treasury_usdc,
                            req.buyer, req.amount)
         IN IF w1.err # "Ok" THEN w1 ELSE WriteReceipt(w1, req, now)

\* The whole instruction: accounts, then the handler.
Execute(w, req, rejectDup, now) ==
    LET w1 == TryAccounts(w, req, rejectDup) IN
    IF w1.err # "Ok" THEN w1 ELSE Handler(w1, req, now)

\* mutant: the changes made before an error are kept
Outcome_NoRollback(pre, w) == w

\* The transaction boundary: Ok(()) commits every change made, an error
\* discards them all.
Outcome(pre, w) ==
    IF w.err = "Ok" THEN w
    ELSE [w EXCEPT !.balance = pre.balance, !.receipts = pre.receipts,
                   !.debited = pre.debited, !.credited = pre.credited]

----------------------------------------------------------------------------
(* The state machine *)

NoCall == [op |-> "none"]

Init ==
    /\ balance = InitBalance
    /\ receipts = << >>
    /\ clock = 0
    /\ debited = [b \in Wallets |-> 0]
    /\ credited = [b \in Wallets |-> 0]
    /\ commits = << >>
    /\ last = NoCall

\* how many invocations for the pair p = <<buyer, client_seed>> committed
CommitCount(p) == IF p \in DOMAIN commits THEN commits[p] ELSE 0

BuyPack(req, rejectDup) ==
    LET pre == [balance |-> balance, receipts |-> receipts,
                debited |-> debited, credited |-> credited, err |-> "Ok", steps |-> <<>>, bump |-> 0]
        out == Outcome(pre, Execute(pre, req, rejectDup, clock))
    IN /\ balance' = out.balance
       /\ receipts' = out.receipts
       /\ debited' = out.debited
       /\ credited' = out.credited
       /\ commits' = IF out.err = "Ok"
                     THEN Put(commits, <<req.buyer, req.client_seed>>,
                              CommitCount(<<req.buyer, req.client_seed>>) + 1)
                     ELSE commits
       /\ last' = [op |-> "buy_pack", req |-> req, err |-> out.err, steps |-> out.steps,
                   balance |-> balance, receipts |-> receipts]
       /\ UNCHANGED clock

\* the client takes the result of its transaction
Return ==
    /\ last # NoCall
    /\ last' = NoCall
    /\ UNCHANGED <<balance, receipts, clock, debited, credited, commits>>

\* the ledger's clock advances between transactions
Tick ==
    /\ last = NoCall
    /\ clock < MaxClock
    /\ clock' = clock + 1
    /\ UNCHANGED <<balance, receipts, debited, credited, commits, last>>

\* The outcomes of the duplicate-account check for a request: the build's
\* choice where the same account is passed for both holding accounts, and
\* of no effect elsewhere.
DupCheckBuilds(req) ==
    IF req.buyer_usdc = req.treasury_usdc THEN BOOLEAN ELSE {FALSE}

Next ==
    \/ /\ last = NoCall
       /\ Cardinality(DOMAIN receipts) < MaxReceipts
       /\ \E req \in Requests : \E rejectDup \in DupCheckBuilds(req) :
              BuyPack(req, rejectDup)
    \/ Return
    \/ Tick

Spec == Init /\ [][Next]_vars

----------------------------------------------------------------------------
(* Vocabulary of the properties.  Every state in which `last` is a call is *)
(* the state right after that invocation; last.balance and last.receipts   *)
(* are the ledger right before it.                                         *)

Called == last.op = "buy_pack"
Committed == Called /\ last.err = "Ok"
Aborted == Called /\ last.err # "Ok"

LedgerUnchanged == balance = last.balance /\ receipts = last.receipts

\* the address of (buyer, tag) of a request
PairAddress(req) == ReceiptAddress(req.buyer, req.client_seed).address

ReceiptExistedBefore(req) == PairAddress(req) \in DOMAIN last.receipts

\* the account passed for `receipt` is the one of (buyer, tag)
PassesPairAddress(req) ==
    /\ ReceiptAddress(req.buyer, req.client_seed).found
    /\ req.receipt = PairAddress(req)

\* the source holding account is the signer's and both holding accounts
\* hold the token type passed
HoldingAccountsMatch(req) ==
    /\ TokenAccountOwner(req.buyer_usdc) = req.buyer
    /\ TokenAccountMint(req.buyer_usdc) = req.usdc_mint
    /\ TokenAccountMint(req.treasury_usdc) = req.usdc_mint

RECURSIVE SumAmounts(_, _)
SumAmounts(rs, keys) ==
    IF keys = {} THEN 0
    ELSE LET k == CHOOSE x \in keys : TRUE
         IN rs[k].amount + SumAmounts(rs, keys \ {k})

\* the sum of the amounts of the receipts of buyer b
ReceiptSum(b) == SumAmounts(receipts, {k \in DOMAIN receipts : receipts[k].buyer = b})

RECURSIVE SumOver(_, _)
SumOver(f, keys) ==
    IF keys = {} THEN 0
    ELSE LET k == CHOOSE x \in keys : TRUE IN f[k] + SumOver(f, keys \ {k})

AccountsOf(b) == {a \in TokenAccounts : TokenAccountOwner(a) = b}

----------------------------------------------------------------------------
(* C1 *)

\* a request that is valid in the sense of C1
C1_Valid ==
    /\ Len(last.req.client_seed) <= 32
    /\ last.req.amount > 0
    /\ last.req.usdc_mint = USDC_MINT
    /\ TokenAccountOwner(last.req.treasury_usdc) = TREASURY
    /\ last.balance[last.req.buyer_usdc] >= last.req.amount
    /\ ~ReceiptExistedBefore(last.req)
    /\ PassesPairAddress(last.req)
    /\ HoldingAccountsMatch(last.req)

C1_Effect ==
    /\ last.err = "Ok"
    /\ DOMAIN receipts \ DOMAIN last.receipts = {PairAddress(last.req)}
    /\ \A k \in DOMAIN last.receipts : k \in DOMAIN receipts
    /\ balance[last.req.buyer_usdc] = last.balance[last.req.buyer_usdc] - last.req.amount
    /\ balance[last.req.treasury_usdc] =
           last.balance[last.req.treasury_usdc] + last.req.amount

\* C1 as stated: every valid buy_pack request commits, creates exactly one
\* receipt, takes amount from the buyer's holding account and adds amount
\* to the treasury holding account.
C1_AsStated == (Called /\ C1_Valid) => C1_Effect

\* C1, amended: the same for every valid request whose source holding
\* account is not also its destination holding account.
C1_ValidPurchaseCommits ==
    (Called /\ C1_Valid /\ last.req.buyer_usdc # last.req.treasury_usdc) => C1_Effect

C1_Witness ==
    /\ Committed
    /\ last.req.buyer_usdc # last.req.treasury_usdc
    /\ last.balance[last.req.buyer_usdc] > last.req.amount

----------------------------------------------------------------------------
(* C2 *)

\* C2 as stated: tokens have moved if and only if a receipt records it: for
\* every buyer the tokens taken from its source accounts, and the tokens
\* added to the destination accounts, equal the sum of its receipts.
C2_AsStated ==
    \A b \in Wallets : debited[b] = ReceiptSum(b) /\ credited[b] = ReceiptSum(b)

\* C2, amended: for every buyer other than the treasury wallet the tokens
\* taken from its holding accounts, and added to treasury holding accounts,
\* equal the sum of its receipts; the treasury's holdings grew by the sum of
\* those receipts; an aborted invocation leaves balances and receipts as
\* they were.  For the treasury wallet as buyer the tokens moved are at most
\* the sum of its receipts (a payment from an account to itself moves none).
C2_TransferIffReceipt ==
    /\ \A b \in Wallets :
          LET paid == ReceiptSum(b) IN
          /\ debited[b] = credited[b]
          /\ debited[b] <= paid
          /\ b # TREASURY =>
                /\ debited[b] = paid
                /\ SumOver(InitBalance, AccountsOf(b)) - SumOver(balance, AccountsOf(b))
                       = paid
    /\ SumOver(balance, AccountsOf(TREASURY)) - SumOver(InitBalance, AccountsOf(TREASURY))
           = SumOver([b \in Wallets |-> ReceiptSum(b)], Wallets \ {TREASURY})
    /\ Aborted => LedgerUnchanged

\* a purchase was paid and recorded, and a later invocation failed in the
\* token transfer, after its receipt account had been allocated
C2_Witness ==
    /\ Aborted
    /\ last.err = "InsufficientFunds"
    /\ \E b \in Wallets \ {TREASURY} : ReceiptSum(b) > 0

----------------------------------------------------------------------------
(* C3 *)

\* C3: two requests with the same (buyer, tag), in any order of execution,
\* yield exactly one committed receipt; the one that finds the receipt
\* allocated fails with the address-already-allocated error of the account
\* creation and changes no balance and no receipt.
C3_OneReceiptPerPair ==
    /\ \A p \in DOMAIN PdaTable :
          LET n == CommitCount(p) IN
          /\ n <= 1
          /\ n = 1 <=> (PdaTable[p].found /\ PdaTable[p].address \in DOMAIN receipts)
    /\ (Called /\ ReceiptExistedBefore(last.req)) =>
          /\ last.err # "Ok"
          /\ LedgerUnchanged
          /\ PassesPairAddress(last.req) => last.err = "AccountAlreadyInUse"

\* the second request for a pair, otherwise valid and affordable
C3_Witness ==
    /\ Called
    /\ last.err = "AccountAlreadyInUse"
    /\ last.req.amount > 0
    /\ HoldingAccountsMatch(last.req)
    /\ last.req.usdc_mint = USDC_MINT
    /\ TokenAccountOwner(last.req.treasury_usdc) = TREASURY
    /\ last.balance[last.req.buyer_usdc] >= last.req.amount

----------------------------------------------------------------------------
(* C4 *)

\* C4: a request whose tag is longer than 32 bytes fails with SeedTooLong,
\* and no balance changes and no receipt is created.
C4_AsStated ==
    (Called /\ Len(last.req.client_seed) > 32) =>
        (last.err = "SeedTooLong" /\ LedgerUnchanged)

----------------------------------------------------------------------------
(* C5, C6, C7: the accounts are validated before the handler body runs *)

\* Passing the same account as source and destination is accepted or
\* rejected depending on the build, so what the properties say about the
\* error returned is said of requests with two distinct holding accounts.
DistinctHoldingAccounts(req) == req.buyer_usdc # req.treasury_usdc

\* every check of the account validation that precedes the comparison of
\* the destination's owner with TREASURY
PassesUpToTreasuryCheck(req) ==
    /\ PassesPairAddress(req)
    /\ ~ReceiptExistedBefore(req)
    /\ TokenAccountOwner(req.buyer_usdc) = req.buyer
    /\ TokenAccountMint(req.buyer_usdc) = req.usdc_mint

\* ... that precedes the comparison of the mint with USDC_MINT
PassesUpToMintCheck(req) ==
    /\ PassesUpToTreasuryCheck(req)
    /\ TokenAccountOwner(req.treasury_usdc) = TREASURY
    /\ TokenAccountMint(req.treasury_usdc) = req.usdc_mint

\* the whole account validation
PassesAccountValidation(req) ==
    /\ PassesUpToMintCheck(req)
    /\ req.usdc_mint = USDC_MINT

\* C5 as stated: a request with amount == 0 (its tag of at most 32 bytes,
\* its receipt account the one of (buyer, tag)) fails with ZeroAmount and
\* has no side effects.
C5_AsStated ==
    (Called /\ last.req.amount = 0 /\ PassesPairAddress(last.req))
        => (last.err = "ZeroAmount" /\ LedgerUnchanged)

\* C5, amended: a request with amount == 0 fails and has no side effects;
\* the error is ZeroAmount when the request passes the account validation,
\* and only then.
C5_ZeroAmountRejected ==
    (Called /\ last.req.amount = 0) =>
        /\ last.err # "Ok"
        /\ LedgerUnchanged
        /\ (PassesAccountValidation(last.req) /\ DistinctHoldingAccounts(last.req))
              => last.err = "ZeroAmount"
        /\ last.err = "ZeroAmount" => PassesAccountValidation(last.req)

C5_Witness ==
    /\ Called
    /\ last.req.amount = 0
    /\ last.err = "ZeroAmount"
    /\ receipts # << >>

\* C6 as stated: a request whose mint is not USDC_MINT (its tag of at most
\* 32 bytes, its amount positive, its receipt account the one of (buyer,
\* tag)) fails with InvalidMint and has no side effects.
C6_AsStated ==
    (/\ Called
     /\ last.req.usdc_mint # USDC_MINT
     /\ last.req.amount > 0
     /\ PassesPairAddress(last.req))
    => (last.err = "InvalidMint" /\ LedgerUnchanged)

\* C6, amended: a request whose mint is not USDC_MINT fails and has no side
\* effects; the error is InvalidMint when the request passes the checks made
\* before the mint is compared (receipt address, source owner, mint of both
\* holding accounts, destination owner), and only then.
C6_WrongMintRejected ==
    (Called /\ last.req.usdc_mint # USDC_MINT) =>
        /\ last.err # "Ok"
        /\ LedgerUnchanged
        /\ (PassesUpToMintCheck(last.req) /\ DistinctHoldingAccounts(last.req))
              => last.err = "InvalidMint"
        /\ last.err = "InvalidMint" => PassesUpToMintCheck(last.req)

C6_Witness ==
    /\ Called
    /\ last.req.usdc_mint # USDC_MINT
    /\ last.err = "InvalidMint"
    /\ last.req.amount > 0
    /\ last.balance[last.req.buyer_usdc] >= last.req.amount

\* C7 as stated: a request whose destination account is not owned by
\* TREASURY (its tag of at most 32 bytes, its amount positive, its mint
\* USDC_MINT, its receipt account the one of (buyer, tag)) fails with
\* InvalidTreasury and has no side effects.
C7_AsStated ==
    (/\ Called
     /\ TokenAccountOwner(last.req.treasury_usdc) # TREASURY
     /\ last.req.amount > 0
     /\ last.req.usdc_mint = USDC_MINT
     /\ PassesPairAddress(last.req))
    => (last.err = "InvalidTreasury" /\ LedgerUnchanged)

\* C7, amended: such a request fails and has no side effects; the error is
\* InvalidTreasury when the request passes the checks made before the
\* destination's owner is compared (receipt address, owner and mint of the
\* source account), and only then.
C7_WrongTreasuryRejected ==
    (Called /\ TokenAccountOwner(last.req.treasury_usdc) # TREASURY) =>
        /\ last.err # "Ok"
        /\ LedgerUnchanged
        /\ (PassesUpToTreasuryCheck(last.req) /\ DistinctHoldingAccounts(last.req))
              => last.err = "InvalidTreasury"
        /\ last.err = "InvalidTreasury" => PassesUpToTreasuryCheck(last.req)

C7_Witness ==
    /\ Called
    /\ TokenAccountOwner(last.req.treasury_usdc) # TREASURY
    /\ last.err = "InvalidTreasury"
    /\ last.req.amount > 0
    /\ last.balance[last.req.buyer_usdc] >= last.req.amount

----------------------------------------------------------------------------
(* C8 *)

TransferRequested == \E i \in DOMAIN last.steps : last.steps[i] = "transfer_requested"

\* the errors of the token program's Transfer
TransferErrors == {"InsufficientFunds", "MintMismatch", "OwnerMismatch"}

\* valid but for the buyer's balance and the owner of the source account
C8_OtherwiseValid ==
    /\ PassesPairAddress(last.req)
    /\ ~ReceiptExistedBefore(last.req)
    /\ DistinctHoldingAccounts(last.req)
    /\ TokenAccountMint(last.req.buyer_usdc) = last.req.usdc_mint
    /\ TokenAccountOwner(last.req.treasury_usdc) = TREASURY
    /\ TokenAccountMint(last.req.treasury_usdc) = last.req.usdc_mint
    /\ last.req.usdc_mint = USDC_MINT
    /\ last.req.amount > 0

\* C8 as stated: when the buyer's balance is below the amount, or the
\* source holding account is not the signer's, the invocation aborts with
\* the error of the transfer subsystem and the ledger is unchanged.
C8_AsStated ==
    (/\ Called
     /\ C8_OtherwiseValid
     /\ \/ last.balance[last.req.buyer_usdc] < last.req.amount
        \/ TokenAccountOwner(last.req.buyer_usdc) # last.req.buyer)
    => (last.err \in TransferErrors /\ LedgerUnchanged)

\* C8, amended: when the token transfer fails, which it does when the
\* buyer's balance is below the amount, the invocation aborts with the
\* transfer's error and the ledger is unchanged: balances as before and no
\* receipt at the address of (buyer, tag).  A source holding account that is
\* not the signer's is rejected by the account validation, before any
\* transfer is requested, with the ledger unchanged as well.
C8_TransferFailureAborts ==
    Called =>
        /\ (TransferRequested /\ last.err # "Ok") =>
              /\ last.err = "InsufficientFunds"
              /\ last.balance[last.req.buyer_usdc] < last.req.amount
              /\ LedgerUnchanged
              /\ PairAddress(last.req) \notin DOMAIN receipts
        /\ (/\ C8_OtherwiseValid
            /\ TokenAccountOwner(last.req.buyer_usdc) = last.req.buyer
            /\ last.balance[last.req.buyer_usdc] < last.req.amount) =>
              (last.err = "InsufficientFunds" /\ TransferRequested)
        /\ TokenAccountOwner(last.req.buyer_usdc) # last.req.buyer =>
              /\ last.err \notin TransferErrors \cup {"Ok"}
              /\ ~TransferRequested
              /\ LedgerUnchanged
        /\ (C8_OtherwiseValid
              /\ TokenAccountOwner(last.req.buyer_usdc) # last.req.buyer) =>
              last.err = "ConstraintTokenOwner"

C8_Witness ==
    /\ Called
    /\ TransferRequested
    /\ last.err = "InsufficientFunds"
    /\ last.receipts # << >>
    /\ PairAddress(last.req) \notin DOMAIN receipts

----------------------------------------------------------------------------
(* C9 *)

\* C9: no step changes or removes a receipt that exists, and a receipt that
\* exists is a committed one, with every field set by the invocation that
\* created it.
C9_ReceiptsImmutable ==
    [][/\ \A k \in DOMAIN receipts :
             k \in DOMAIN receipts' /\ receipts'[k] = receipts[k]
       /\ \A k \in DOMAIN receipts' :
             receipts'[k].buyer \in Wallets /\ receipts'[k].amount > 0]_vars

\* an invocation for a pair whose receipt exists, and one that commits
\* beside an existing receipt
C9_Witness ==
    /\ Called
    /\ last.receipts # << >>
    /\ \/ ReceiptExistedBefore(last.req)
       \/ last.err = "Ok"

----------------------------------------------------------------------------
(* C10 *)

\* C10: every receipt is stored at the address derived from its own buyer
\* and client_seed, and the derivation yields the bump stored in it.
C10_AddressDerivedFromFields ==
    \A k \in DOMAIN receipts :
        /\ receipts[k].buyer \in Wallets
        /\ LET pda == FindProgramAddress(
                          ReceiptSeeds(receipts[k].buyer, receipts[k].client_seed))
           IN pda.found /\ pda.address = k /\ pda.bump = receipts[k].bump

\* two receipts whose derivations stopped at different bumps
C10_Witness ==
    \E k1, k2 \in DOMAIN receipts : receipts[k1].bump # receipts[k2].bump

----------------------------------------------------------------------------
(* C11 *)

\* the four preconditions of the validator, as the claim lists them
TagTooLong(req) == Len(req.client_seed) > 32
AmountIsZero(req) == req.amount = 0
MintIsWrong(req) == req.usdc_mint # USDC_MINT
TreasuryIsWrong(req) == TokenAccountOwner(req.treasury_usdc) # TREASURY

ViolatedPreconditions(req) ==
    {c \in {"SeedTooLong", "ZeroAmount", "InvalidMint", "InvalidTreasury"} :
        \/ c = "SeedTooLong" /\ TagTooLong(req)
        \/ c = "ZeroAmount" /\ AmountIsZero(req)
        \/ c = "InvalidMint" /\ MintIsWrong(req)
        \/ c = "InvalidTreasury" /\ TreasuryIsWrong(req)}

\* the error of the first violated check in the order of the claim
FirstInClaimedOrder(req) ==
    IF TagTooLong(req) THEN "SeedTooLong"
    ELSE IF AmountIsZero(req) THEN "ZeroAmount"
    ELSE IF MintIsWrong(req) THEN "InvalidMint"
    ELSE "InvalidTreasury"

\* C11 as stated: a request that violates more than one of the four
\* preconditions (its receipt account the one of (buyer, tag) and not yet
\* allocated, its source holding account the signer's, both holding
\* accounts of the mint passed) fails with the error of the first violated check in the order SeedTooLong, ZeroAmount,
\* InvalidMint, InvalidTreasury.
C11_AsStated ==
    (/\ Called
     /\ PassesPairAddress(last.req)
     /\ ~ReceiptExistedBefore(last.req)
     /\ HoldingAccountsMatch(last.req)
     /\ Cardinality(ViolatedPreconditions(last.req)) > 1)
    => last.err = FirstInClaimedOrder(last.req)

\* C11, amended: the checks run in the order treasury owner, mint, amount.
\* Of a request with two distinct holding accounts that passes the checks
\* made before the destination's owner is compared: a wrong destination
\* owner yields InvalidTreasury whatever the mint and the amount; otherwise
\* a wrong mint (the destination holding that mint) yields InvalidMint
\* whatever the amount; otherwise a zero amount yields ZeroAmount.  No
\* invocation returns SeedTooLong.
C11_ValidatorOrder ==
    Called =>
        /\ last.err # "SeedTooLong"
        /\ (PassesUpToTreasuryCheck(last.req) /\ DistinctHoldingAccounts(last.req)) =>
              IF TreasuryIsWrong(last.req)
                  THEN last.err = "InvalidTreasury"
              ELSE IF TokenAccountMint(last.req.treasury_usdc) # last.req.usdc_mint
                  THEN last.err = "ConstraintTokenMint"
              ELSE IF MintIsWrong(last.req)
                  THEN last.err = "InvalidMint"
              ELSE IF AmountIsZero(last.req)
                  THEN last.err = "ZeroAmount"
              ELSE last.err \in {"Ok", "InsufficientFunds"}

\* a request that violates the three of them fails on the treasury owner
C11_Witness ==
    /\ Called
    /\ TreasuryIsWrong(last.req) /\ MintIsWrong(last.req) /\ AmountIsZero(last.req)
    /\ last.err = "InvalidTreasury"

----------------------------------------------------------------------------
(* C12 *)

StepDone(step) == \E i \in DOMAIN last.steps : last.steps[i] = step

\* the errors of the four validator checks
ValidatorErrors == {"SeedTooLong", "ZeroAmount", "InvalidMint", "InvalidTreasury"}

\* C12: the transfer is requested only after the four validator checks
\* (tag length, amount > 0, canonical mint, canonical treasury owner) have
\* passed, and an invocation that violates one of them, or fails with the
\* error of one of them, requests no transfer and has no balance checked.
C12_TransferAfterValidation ==
    Called =>
        /\ TransferRequested =>
              /\ ViolatedPreconditions(last.req) = {}
              /\ StepDone("account_constraints")
              /\ last.err \notin ValidatorErrors
        /\ (ViolatedPreconditions(last.req) # {} \/ last.err \in ValidatorErrors) =>
              /\ ~TransferRequested
              /\ ~StepDone("transfer")
              /\ last.err # "InsufficientFunds"
              /\ LedgerUnchanged

\* an invocation that fails the last of the checks, the amount, on a source
\* account that holds nothing
C12_Witness ==
    /\ Called
    /\ last.err = "ZeroAmount"
    /\ last.balance[last.req.buyer_usdc] = 0
    /\ ~TransferRequested

----------------------------------------------------------------------------
(* C13 *)

\* the steps of one invocation, in the order the code takes them
StepOrder ==
    <<"init_receipt", "account_constraints", "transfer_requested", "transfer",
      "write_receipt">>

IsPrefix(s, t) == Len(s) <= Len(t) /\ s = SubSeq(t, 1, Len(s))

\* the position of a step among the steps of the last invocation, 0 if it
\* was not taken
StepIndex(step) ==
    IF StepDone(step) THEN CHOOSE i \in DOMAIN last.steps : last.steps[i] = step ELSE 0

\* C13 as stated: the transfer is executed before the receipt's storage is
\* allocated, so an invocation that fails because the address is already
\* allocated has requested the transfer, and one that transfers and
\* allocates has transferred first.
C13_AsStated ==
    Called =>
        /\ last.err = "AccountAlreadyInUse" => TransferRequested
        /\ (StepDone("init_receipt") /\ StepDone("transfer")) =>
              StepIndex("transfer") < StepIndex("init_receipt")

\* C13, amended: the steps occur in the order receipt storage allocation
\* at the derived address, validation of the other accounts, the handler's
\* checks and the token transfer, population of the receipt, commit: the
\* storage is allocated before the transfer is requested, so a
\* duplicate-address failure is detected before any step is taken and
\* without a transfer being requested; a committed invocation took all the
\* steps.
C13_StepOrder ==
    Called =>
        /\ IsPrefix(last.steps, StepOrder)
        /\ last.err = "Ok" <=> last.steps = StepOrder
        /\ last.err = "AccountAlreadyInUse" =>
              /\ ReceiptExistedBefore(last.req)
              /\ last.steps = << >>
        /\ TransferRequested => PairAddress(last.req) \notin DOMAIN last.receipts

\* a duplicate request that the token program would have served: it fails
\* with no step taken
C13_Witness ==
    /\ Called
    /\ last.err = "AccountAlreadyInUse"
    /\ last.steps = << >>
    /\ DistinctHoldingAccounts(last.req)
    /\ HoldingAccountsMatch(last.req)
    /\ ViolatedPreconditions(last.req) = {}
    /\ last.balance[last.req.buyer_usdc] >= last.req.amount

----------------------------------------------------------------------------
(* C14 *)

\* C14: after a successful buy_pack(client_seed, amount) signed by buyer B
\* the new receipt, at the address derived from (B, client_seed), holds
\* buyer = B, amount = the amount requested, client_seed = the tag supplied,
\* timestamp = the ledger clock at execution and bump = the bump of the
\* derived address.
C14_ReceiptFields ==
    Committed =>
        LET pda == FindProgramAddress(ReceiptSeeds(last.req.buyer, last.req.client_seed))
        IN /\ pda.found
           /\ pda.address \notin DOMAIN last.receipts
           /\ pda.address \in DOMAIN receipts
           /\ receipts[pda.address] =
                  [buyer |-> last.req.buyer, amount |-> last.req.amount,
                   client_seed |-> last.req.client_seed, timestamp |-> clock,
                   bump |-> pda.bump]

\* a purchase committed after the clock has advanced, with a tag of the
\* greatest length
C14_Witness ==
    /\ Committed
    /\ clock > 0
    /\ Len(last.req.client_seed) = 32
    /\ last.req.buyer # TREASURY

----------------------------------------------------------------------------
(* C15 *)

\* C15: in every reachable state every receipt has amount > 0 and a
\* client_seed of at most 32 bytes.
C15_ReceiptsWellFormed ==
    \A k \in DOMAIN receipts :
        receipts[k].amount > 0 /\ Len(receipts[k].client_seed) <= 32

\* a receipt with a tag of 32 bytes exists, and a request with a longer tag
\* has just been turned down
C15_Witness ==
    /\ Aborted
    /\ Len(last.req.client_seed) > 32
    /\ \E k \in DOMAIN receipts : Len(receipts[k].client_seed) = 32

----------------------------------------------------------------------------
(* C16 *)

\* C16: an invocation commits only if the source holding account is owned
\* by the signing buyer; the balance of a holding account decreases only in
\* a committed invocation signed by its owner that names it as the source;
\* the buyer recorded in the receipt is the owner of the source account.
C16_OnlyOwnerIsDebited ==
    Called =>
        /\ last.err = "Ok" => TokenAccountOwner(last.req.buyer_usdc) = last.req.buyer
        /\ \A a \in TokenAccounts :
              balance[a] < last.balance[a] =>
                  /\ last.err = "Ok"
                  /\ a = last.req.buyer_usdc
                  /\ TokenAccountOwner(a) = last.req.buyer
                  /\ last.balance[a] - balance[a] = last.req.amount
        /\ last.err = "Ok" =>
              receipts[PairAddress(last.req)].buyer = TokenAccountOwner(last.req.buyer_usdc)

\* a signer names another wallet's funded account, whose delegate it is,
\* as the source of a request that is valid otherwise
C16_Witness ==
    /\ Aborted
    /\ last.err = "ConstraintTokenOwner"
    /\ TokenAccountOwner(last.req.buyer_usdc) # last.req.buyer
    /\ TokenAccountDelegate(last.req.buyer_usdc) = last.req.buyer
    /\ last.req.amount > 0
    /\ last.balance[last.req.buyer_usdc] >= last.req.amount
    /\ ViolatedPreconditions(last.req) = {}
    /\ TokenAccountMint(last.req.buyer_usdc) = USDC_MINT
    /\ TokenAccountMint(last.req.treasury_usdc) = USDC_MINT
    /\ PassesPairAddress(last.req)
    /\ ~ReceiptExistedBefore(last.req)
    /\ receipts # << >>

----------------------------------------------------------------------------
(* C17 *)

\* the receipts, before the last invocation, of the pair it is for
ReceiptsOfPairBefore(req) ==
    {k \in DOMAIN last.receipts :
        /\ last.receipts[k].buyer = req.buyer
        /\ last.receipts[k].client_seed = req.client_seed}

\* C17: uniqueness is per (buyer, tag) only: a request fails with the
\* address-already-allocated error only if a receipt of its own buyer and
\* tag exists, whatever other receipts exist; every committed pair has its
\* own receipt.
C17_UniquePerPairOnly ==
    /\ Called =>
          /\ last.err = "AccountAlreadyInUse" => ReceiptsOfPairBefore(last.req) # {}
          /\ last.err = "Ok" =>
                Cardinality(DOMAIN receipts) = Cardinality(DOMAIN last.receipts) + 1
    /\ Cardinality(DOMAIN receipts) = Cardinality(DOMAIN commits)

\* a buyer's purchase commits under a tag another buyer has a receipt for
C17_Witness ==
    /\ Committed
    /\ \E k \in DOMAIN last.receipts :
          /\ last.receipts[k].client_seed = last.req.client_seed
          /\ last.receipts[k].buyer # last.req.buyer
          /\ TREASURY \notin {last.receipts[k].buyer, last.req.buyer}

----------------------------------------------------------------------------
(* C18 *)

AccountsOfMint(m) == {a \in TokenAccounts : TokenAccountMint(a) = m}

\* C18: in whatever order the transactions are executed, the sum of the
\* balances of the holding accounts of each token type is constant, no
\* balance is negative, and a request commits only if its amount fits the
\* balance of its source account at the moment it is executed.
C18_SupplyConserved ==
    /\ \A m \in Mints :
          SumOver(balance, AccountsOfMint(m)) = SumOver(InitBalance, AccountsOfMint(m))
    /\ \A a \in TokenAccounts : balance[a] >= 0
    /\ Committed => last.req.amount <= last.balance[last.req.buyer_usdc]

\* two requests of one buyer with different tags, whose amounts together
\* exceed what the buyer held: the first has a receipt, the second fails
C18_Witness ==
    /\ Aborted
    /\ last.err = "InsufficientFunds"
    /\ \E k \in DOMAIN receipts :
          /\ receipts[k].buyer = last.req.buyer
          /\ receipts[k].client_seed # last.req.client_seed
          /\ receipts[k].amount <= InitBalance[last.req.buyer_usdc]
          /\ receipts[k].amount + last.req.amount > InitBalance[last.req.buyer_usdc]

----------------------------------------------------------------------------
(* C19 *)

\* C19: a committed invocation by buyer B with tag T changes no balance but
\* those of the source account, which is B's, and of the destination
\* account, which is the treasury's, and no receipt but the one at the
\* address derived from (B, T), which it creates.
C19_Frame ==
    Committed =>
        /\ \A a \in TokenAccounts \ {last.req.buyer_usdc, last.req.treasury_usdc} :
              balance[a] = last.balance[a]
        /\ TokenAccountOwner(last.req.buyer_usdc) = last.req.buyer
        /\ TokenAccountOwner(last.req.treasury_usdc) = TREASURY
        /\ \A k \in DOMAIN last.receipts :
              k \in DOMAIN receipts /\ receipts[k] = last.receipts[k]
        /\ DOMAIN receipts \ DOMAIN last.receipts =
              {FindProgramAddress(
                   ReceiptSeeds(last.req.buyer, last.req.client_seed)).address}

\* a purchase that moves tokens commits while another receipt exists and
\* accounts it does not name hold tokens
C19_Witness ==
    /\ Committed
    /\ balance[last.req.buyer_usdc] < last.balance[last.req.buyer_usdc]
    /\ last.receipts # << >>
    /\ \E a \in TokenAccounts \ {last.req.buyer_usdc, last.req.treasury_usdc} :
          TokenAccountMint(a) = USDC_MINT /\ balance[a] > 0

====
